---- MODULE Spec2Model ----
(***************************************************************************)
(* Model of the digital business card backend (src/server.js): the session *)
(* authority (request-code, verify-code, company-login, logout, session     *)
(* validation), the protected company / contact / lead / upload handlers   *)
(* and the wallet pass builders with their routes, over the tables of       *)
(* src/scripts/setup-db.js.                                                 *)
(*                                                                          *)
(* Time is counted in units of ten minutes, so the 10-minute challenge      *)
(* window is 1 unit and the 24-hour session window is 144 units.  The       *)
(* application clock (Date.now()) and the database clock (NOW()) are one    *)
(* clock, `now`.  uuidv4() and the database's gen_random_uuid() are         *)
(* modelled as fresh identifiers drawn from a counter.                      *)
(*                                                                          *)
(* A handler is one action where its requests are served one after another; *)
(* verify-code and the contact writes are also given statement by           *)
(* statement, one action per `await sql`, for requests in flight together.  *)
(***************************************************************************)
EXTENDS Integers, FiniteSets, Sequences, TLC

(* ------------------------------ bounds -------------------------------- *)

MaxTime == 145
MaxShortTicks == 2
MaxSessions == 2
MaxCompanies == 2
MaxContacts == 1
MaxLeads == 1
MaxFiles == 1
MaxBuilds == 2
MaxPassContacts == 2
MaxRequests == 2

(* ------------------------- program constants -------------------------- *)

SUPER_ADMIN_EMAIL == "ml@feedbacknfc.com"
CODE_TTL == 1
SESSION_TTL == 144
DEFAULT_BYPASS == "000000"
NULL == 0

(* ------------------------------ inputs -------------------------------- *)

\* generateAuthCode() returns a decimal string in 100000..999999.
Codes == {"123456", "654321"}
\* Codes a client may submit: the generated ones and the development default.
SubmittedCodes == Codes \cup {DEFAULT_BYPASS}
\* Values of ADMIN_BYPASS_CODE; "" is unset (or empty, which JS treats alike).
BypassSettings == {"", "123456"}
NodeEnvs == {"production", "development"}

CompanyEmails == {"acme@corp.com", "ACME@corp.com"}
\* Addresses of two unrelated companies.
TenantEmails == {"acme@corp.com", "zeta@corp.com"}
Emails == {SUPER_ADMIN_EMAIL, "ML@feedbacknfc.com"} \cup CompanyEmails
Passwords == {"pw1", "pw2"}

\* SQL LOWER() on the e-mail addresses of the model.
LOWER(e) ==
    CASE e = "ACME@corp.com" -> "acme@corp.com"
      [] e = "ML@feedbacknfc.com" -> "ml@feedbacknfc.com"
      [] OTHER -> e

VARIABLES
    env,          \* process.env as read by the handlers, fixed at start
    now,          \* the clock
    auth_codes,   \* table auth_codes: rows [email, code, expires_at]
    sessions,     \* table sessions
    companies,    \* table companies
    contacts,     \* table contacts
    leads,        \* table leads
    files,        \* files written under public/logos
    passes,       \* object ids of the Google passes built so far, in order
    nextId,       \* counters behind uuidv4 / gen_random_uuid / serial ids
    inflight,     \* the requests being served one store statement at a time
    last          \* the last request and its response

vars == <<env, now, auth_codes, sessions, companies, contacts, leads, files,
          passes, nextId, inflight, last>>

(* ----------------------------- helpers -------------------------------- *)

\* A request and the response the handler sent for it.  sid is the
\* x-session-id header (NULL when absent); data is the set of values the
\* response body carries besides status and error; mail is the set of
\* e-mails [to, code] the handler sent while serving it; log is the set of
\* auth codes it wrote to the server log; calls is the sequence of key and
\* signing operations it performed; matched says of a
\* verify-code request whether the code sent was the identity's stored code,
\* and challenge is the identity's stored challenge as that request found it;
\* prior says of a verify-code request what the exchange before it was:
\* "expired" for a verify-code of the same identity answered 'Code expired',
\* "used" for a verify-code of the same identity and code that succeeded while
\* that code was the identity's stored code, "" for anything else.
Exchange(op, sid, email, code, target, status, error, data) ==
    [op |-> op, sid |-> sid, email |-> email, code |-> code, target |-> target,
     status |-> status, error |-> error, data |-> data, mail |-> {},
     log |-> {}, calls |-> <<>>, matched |-> FALSE, challenge |-> {}, prior |-> ""]

\* No request has been served at the current instant.
NoExchange == Exchange("none", NULL, "", "", NULL, NULL, "", {})

\* `sql` is null when DATABASE_URL is unset.
sql == env.DATABASE_URL

\* Mutant of bypassCode: the default code also applies in production.
bypassCodeEverywhere ==
    IF env.ADMIN_BYPASS_CODE # "" THEN env.ADMIN_BYPASS_CODE ELSE DEFAULT_BYPASS

\* const bypassCode = process.env.ADMIN_BYPASS_CODE ||
\*     (process.env.NODE_ENV !== 'production' ? '000000' : null);  ("" is null)
bypassCode ==
    IF env.ADMIN_BYPASS_CODE # "" THEN env.ADMIN_BYPASS_CODE
    ELSE IF env.NODE_ENV # "production" THEN DEFAULT_BYPASS ELSE ""

\* Mutant of isBypass: the bypass code is accepted for any identity.
isBypassAnyIdentity(email, code) == bypassCode # "" /\ code = bypassCode

\* const isBypass = bypassCode && code === bypassCode && email === SUPER_ADMIN_EMAIL;
isBypass(email, code) ==
    bypassCode # "" /\ code = bypassCode /\ email = SUPER_ADMIN_EMAIL

\* Mutant of CodeExpired: a code counts as expired at its expires_at already.
CodeExpiredAtBoundary(row) == now >= row.expires_at

\* new Date() > new Date(authData.expires_at)
CodeExpired(row) == now > row.expires_at

\* Mutant of SessionRows: a session still counts at the instant it expires.
SessionRowsInclusive(sid) == {s \in sessions : s.id = sid /\ s.expires_at >= now}

\* SELECT ... FROM sessions WHERE id = ${sessionId} AND expires_at > NOW()
SessionRows(sid) == {s \in sessions : s.id = sid /\ s.expires_at > now}

\* Mutant of NewSession: the company id is not stored.
NewSessionUnbound(email, role, company_id) ==
    [id |-> nextId.session, email |-> email, role |-> role,
     company_id |-> NULL, created_at |-> now,
     expires_at |-> now + SESSION_TTL]

\* INSERT INTO sessions (id, email, role[, company_id], expires_at); created_at
\* defaults to CURRENT_TIMESTAMP.
NewSession(email, role, company_id) ==
    [id |-> nextId.session, email |-> email, role |-> role,
     company_id |-> company_id, created_at |-> now,
     expires_at |-> now + SESSION_TTL]

\* Mutant of LoginRows: the e-mail is compared letter for letter.
LoginRowsExactCase(email, password) ==
    {c \in companies : c.email = email /\ c.password = password}

\* Mutant of LoginRows: the password is not compared.
LoginRowsAnyPassword(email, password) ==
    {c \in companies : LOWER(c.email) = LOWER(email)}

\* SELECT ... FROM companies WHERE LOWER(email) = LOWER(${email}) AND password = ${password}
LoginRows(email, password) ==
    {c \in companies : LOWER(c.email) = LOWER(email) /\ c.password = password}

Bump(field) == [nextId EXCEPT ![field] = @ + 1]

(* --------------------------- session authority ------------------------ *)

\* Mutant of IsPrivileged: the identity is compared ignoring letter case.
IsPrivilegedAnyCase(email) == LOWER(email) = LOWER(SUPER_ADMIN_EMAIL)

\* email !== SUPER_ADMIN_EMAIL, negated: the allow-list of one identity.
IsPrivileged(email) == email = SUPER_ADMIN_EMAIL

\* Mutant of ExpireChallenge: the expired code is left in the table.
ExpireChallengeKept(email) == auth_codes

\* DELETE FROM auth_codes WHERE email = ${email}, for an expired code.
ExpireChallenge(email) == {r \in auth_codes : r.email # email}

\* DELETE FROM auth_codes WHERE email = ${email}, for a used code.
ConsumeChallenge(email) == {r \in auth_codes : r.email # email}

\* Mutant of WithoutSession: logout deletes every session.
WithoutSessionAll(sid) == {}

\* Mutant of WithoutSession: logout deletes nothing.
WithoutSessionKept(sid) == sessions

\* DELETE FROM sessions WHERE id = ${sessionId}
WithoutSession(sid) == {s \in sessions : s.id # sid}

\* POST /api/auth/request-code.  `delivered` is whether the e-mail went out
\* (resend is null without RESEND_API_KEY, and a failed send is swallowed).
RequestCode(email, code, delivered) ==
    IF ~IsPrivileged(email)
    THEN /\ last' = Exchange("request-code", NULL, email, "", NULL, 401,
                             "Unauthorized email", {})
         /\ UNCHANGED <<inflight, passes, env, now, auth_codes, sessions, companies, contacts, leads,
                        files, nextId>>
    ELSE /\ auth_codes' =
              IF sql
              THEN {r \in auth_codes : r.email # email}
                     \cup {[email |-> email, code |-> code, expires_at |-> now + CODE_TTL]}
              ELSE auth_codes
         /\ last' = [Exchange("request-code", NULL, email, "", NULL, 200, "",
                              IF env.DEBUG_MODE THEN {code} ELSE {})
                        EXCEPT !.mail = IF delivered
                                        THEN {[to |-> email, code |-> code]} ELSE {},
                               !.log = {code}]
         /\ UNCHANGED <<inflight, passes, env, now, sessions, companies, contacts, leads, files,
                        nextId>>

\* POST /api/auth/verify-code
VerifyCode(email, code) ==
    LET rows == {r \in auth_codes : r.email = email}
        created == NewSession(email, "super_admin", NULL)
        before == IF last.op # "verify-code" \/ last.email # email THEN ""
                  ELSE IF last.error = "Code expired" THEN "expired"
                  ELSE IF /\ last.status = 200
                          /\ last.code = code
                          /\ last.matched THEN "used"
                  ELSE ""
        reply(status, error, data) ==
            last' = [Exchange("verify-code", NULL, email, code, NULL, status, error,
                              data)
                     EXCEPT !.matched = \E r \in rows : r.code = code,
                            !.challenge = rows, !.prior = before]
    IN
    IF ~sql
    THEN /\ reply(500, "Database not configured", {})
         /\ UNCHANGED <<inflight, passes, env, now, auth_codes, sessions, companies, contacts, leads,
                        files, nextId>>
    ELSE IF isBypass(email, code)
    THEN /\ nextId.session <= MaxSessions
         /\ sessions' = sessions \cup {created}
         /\ nextId' = Bump("session")
         /\ reply(200, "", {created.id})
         /\ UNCHANGED <<inflight, passes, env, now, auth_codes, companies, contacts, leads, files>>
    ELSE IF rows = {}
    THEN /\ reply(401, "No pending verification", {})
         /\ UNCHANGED <<inflight, passes, env, now, auth_codes, sessions, companies, contacts, leads,
                        files, nextId>>
    ELSE LET authData == CHOOSE r \in rows : TRUE IN
         IF CodeExpired(authData)
         THEN /\ auth_codes' = ExpireChallenge(email)
              /\ reply(401, "Code expired", {})
              /\ UNCHANGED <<inflight, passes, env, now, sessions, companies, contacts, leads, files, nextId>>
         ELSE IF authData.code # code
         THEN /\ reply(401, "Invalid code", {})
              /\ UNCHANGED <<inflight, passes, env, now, auth_codes, sessions, companies, contacts,
                             leads, files, nextId>>
         ELSE /\ nextId.session <= MaxSessions
              /\ sessions' = sessions \cup {created}
              /\ nextId' = Bump("session")
              /\ auth_codes' = ConsumeChallenge(email)
              /\ reply(200, "", {created.id})
              /\ UNCHANGED <<inflight, passes, env, now, companies, contacts, leads, files>>

\* POST /api/auth/company-login
CompanyLogin(email, password) ==
    LET result == LoginRows(email, password)
        reply(status, error, data) ==
            last' = Exchange("company-login", NULL, email, password, NULL, status,
                             error, data)
    IN
    IF ~sql
    THEN /\ reply(500, "Database not configured", {})
         /\ UNCHANGED <<inflight, passes, env, now, auth_codes, sessions, companies, contacts, leads,
                        files, nextId>>
    ELSE IF result = {}
    THEN /\ reply(401, "Invalid credentials", {})
         /\ UNCHANGED <<inflight, passes, env, now, auth_codes, sessions, companies, contacts, leads,
                        files, nextId>>
    ELSE \E company \in result :
         LET created == NewSession(email, "company_admin", company.id) IN
         /\ nextId.session <= MaxSessions
         /\ sessions' = sessions \cup {created}
         /\ nextId' = Bump("session")
         /\ reply(200, "", {created.id})
         /\ UNCHANGED <<inflight, passes, env, now, auth_codes, companies, contacts, leads, files>>

\* POST /api/auth/logout
Logout(sid) ==
    /\ sessions' = IF sid # NULL /\ sql THEN WithoutSession(sid) ELSE sessions
    /\ last' = Exchange("logout", sid, "", "", NULL, 200, "", {})
    /\ UNCHANGED <<inflight, passes, env, now, auth_codes, companies, contacts, leads, files,
                   nextId>>

\* GET /api/auth/session
GetSession(sid) ==
    LET result == SessionRows(sid)
        reply(status, error, data) ==
            last' = Exchange("session", sid, "", "", NULL, status, error, data)
    IN
    /\ IF sid = NULL \/ ~sql THEN reply(401, "No session", {})
       ELSE IF result = {} THEN reply(401, "Session expired", {})
       ELSE \E session \in result :
                reply(200, "", {[email |-> session.email, role |-> session.role,
                                 companyId |-> session.company_id]})
    /\ UNCHANGED <<inflight, passes, env, now, auth_codes, sessions, companies, contacts, leads, files, nextId>>

(* ------------------------- protected handlers ------------------------- *)

\* The session check of requireAuth (and of the handlers that inline it): the
\* error it answers 401 with, or "" when the request goes on.
requireAuth(sid) ==
    IF sid = NULL \/ ~sql THEN "Unauthorized"
    ELSE IF SessionRows(sid) = {} THEN "Session expired"
    ELSE ""

\* Mutant of ReqSession: every session is given the super_admin role.
ReqSessionAllSuper(sid) ==
    [(CHOOSE s \in SessionRows(sid) : TRUE) EXCEPT !.role = "super_admin"]

\* req.session, defined when requireAuth(sid) = "".
ReqSession(sid) == CHOOSE s \in SessionRows(sid) : TRUE

untouched == UNCHANGED <<inflight, passes, env, now, auth_codes, sessions, companies, contacts, leads,
                         files, nextId>>

\* GET /api/companies
ListCompanies(sid) ==
    LET reply(status, error, data) ==
            last' = Exchange("list-companies", sid, "", "", NULL, status, error, data)
    IN
    /\ IF requireAuth(sid) # "" THEN reply(401, requireAuth(sid), {})
       ELSE IF ReqSession(sid).role # "super_admin" THEN reply(403, "Forbidden", {})
       ELSE reply(200, "", companies)
    /\ untouched

\* POST /api/companies
CreateCompany(sid, email, password) ==
    LET reply(status, error, data) ==
            last' = Exchange("create-company", sid, email, password, NULL, status,
                             error, data)
        company == [id |-> nextId.company, email |-> email, password |-> password,
                    card_front |-> ""]
    IN
    IF requireAuth(sid) # "" THEN reply(401, requireAuth(sid), {}) /\ untouched
    ELSE IF ReqSession(sid).role # "super_admin"
    THEN reply(403, "Forbidden", {}) /\ untouched
    ELSE IF \E c \in companies : c.email = email
    THEN reply(400, "Email already exists", {}) /\ untouched
    ELSE /\ nextId.company <= MaxCompanies
         /\ companies' = companies \cup {company}
         /\ nextId' = Bump("company")
         /\ reply(200, "", {company.id})
         /\ UNCHANGED <<inflight, passes, env, now, auth_codes, sessions, contacts, leads, files>>

\* PUT /api/companies/:id; email and password are "" when the body omits them.
UpdateCompany(sid, id, email, password) ==
    LET reply(status, error, data) ==
            last' = Exchange("update-company", sid, email, password, id, status,
                             error, data)
        updated(c) == [c EXCEPT !.email = IF email # "" THEN email ELSE @,
                                !.password = IF password # "" THEN password ELSE @]
        result == {c \in companies : c.id = id}
    IN
    IF requireAuth(sid) # "" THEN reply(401, requireAuth(sid), {}) /\ untouched
    ELSE IF ReqSession(sid).role # "super_admin"
    THEN reply(403, "Forbidden", {}) /\ untouched
    ELSE IF \E c \in result : \E o \in companies \ result : o.email = updated(c).email
    THEN reply(500, "Server error", {}) /\ untouched   \* email VARCHAR(255) UNIQUE
    ELSE IF result = {} THEN reply(404, "Company not found", {}) /\ untouched
    ELSE /\ companies' = (companies \ result) \cup {updated(c) : c \in result}
         /\ reply(200, "", {id})
         /\ UNCHANGED <<inflight, passes, env, now, auth_codes, sessions, contacts, leads, files, nextId>>

\* Rows of leads left by DELETE FROM companies WHERE id = ${id}: the leads
\* table is created outside these sources; it is taken to carry no cascade.
LeadsAfterCompanyDelete(id) == leads

\* Mutant of DeleteCompany: the sessions bound to the company are kept.
DeleteCompanyKeepsSessions(sid, id) ==
    LET reply(status, error, data) ==
            last' = Exchange("delete-company", sid, "", "", id, status, error, data)
    IN
    IF requireAuth(sid) # "" THEN reply(401, requireAuth(sid), {}) /\ untouched
    ELSE IF ReqSession(sid).role # "super_admin"
    THEN reply(403, "Forbidden", {}) /\ untouched
    ELSE IF ~\E c \in companies : c.id = id
    THEN reply(404, "Company not found", {}) /\ untouched
    ELSE /\ companies' = {c \in companies : c.id # id}
         /\ contacts' = {c \in contacts : c.company_id # id}
         /\ leads' = LeadsAfterCompanyDelete(id)
         /\ reply(200, "", {})
         /\ UNCHANGED <<inflight, passes, env, now, auth_codes, sessions, files, nextId>>

\* DELETE /api/companies/:id; contacts and sessions go by ON DELETE CASCADE.
DeleteCompany(sid, id) ==
    LET reply(status, error, data) ==
            last' = Exchange("delete-company", sid, "", "", id, status, error, data)
    IN
    IF requireAuth(sid) # "" THEN reply(401, requireAuth(sid), {}) /\ untouched
    ELSE IF ReqSession(sid).role # "super_admin"
    THEN reply(403, "Forbidden", {}) /\ untouched
    ELSE IF ~\E c \in companies : c.id = id
    THEN reply(404, "Company not found", {}) /\ untouched
    ELSE /\ companies' = {c \in companies : c.id # id}
         /\ contacts' = {c \in contacts : c.company_id # id}
         /\ sessions' = {s \in sessions : s.company_id # id}
         /\ leads' = LeadsAfterCompanyDelete(id)
         /\ reply(200, "", {})
         /\ UNCHANGED <<inflight, passes, env, now, auth_codes, files, nextId>>

\* GET /api/contacts; q is req.query.companyId (NULL when absent).
ListContacts(sid, q) ==
    LET reply(status, error, data) ==
            last' = Exchange("list-contacts", sid, "", "", q, status, error, data)
    IN
    /\ IF requireAuth(sid) # "" THEN reply(401, requireAuth(sid), {})
       ELSE IF ReqSession(sid).role = "company_admin"
       THEN reply(200, "", {c \in contacts : c.company_id = ReqSession(sid).company_id})
       ELSE IF q # NULL THEN reply(200, "", {c \in contacts : c.company_id = q})
       ELSE reply(200, "", contacts)
    /\ untouched

\* GET /api/contacts/:id (public)
GetContact(id) ==
    LET reply(status, error, data) ==
            last' = Exchange("get-contact", NULL, "", "", id, status, error, data)
        result == {c \in contacts : c.id = id}
    IN
    /\ IF ~sql THEN reply(500, "Database not configured", {})
       ELSE IF result = {} THEN reply(404, "Contact not found", {})
       ELSE reply(200, "", result)
    /\ untouched

\* POST /api/contacts; bodyCompany is req.body.companyId (NULL when absent),
\* id the client-supplied or generated contact id.
CreateContact(sid, bodyCompany, id, name) ==
    LET reply(status, error, data) ==
            last' = Exchange("create-contact", sid, "", name, id, status, error, data)
        companyId == IF ReqSession(sid).role = "company_admin"
                     THEN ReqSession(sid).company_id ELSE bodyCompany
        contact == [id |-> id, company_id |-> companyId, name_en |-> name]
    IN
    IF requireAuth(sid) # "" THEN reply(401, requireAuth(sid), {}) /\ untouched
    ELSE IF companyId = NULL THEN reply(400, "Company ID required", {}) /\ untouched
    ELSE IF \/ \E c \in contacts : c.id = id               \* id is the PRIMARY KEY
            \/ ~\E c \in companies : c.id = companyId      \* company_id REFERENCES
    THEN reply(500, "Server error", {}) /\ untouched
    ELSE /\ contacts' = contacts \cup {contact}
         /\ reply(200, "", {contact})
         /\ UNCHANGED <<inflight, passes, env, now, auth_codes, sessions, companies, leads, files, nextId>>

\* Mutant of Forbidden: only a missing row is refused.
ForbiddenOnlyMissing(sid, rows) ==
    ReqSession(sid).role = "company_admin" /\ rows = {}

\* The ownership check of the contact and lead handlers for a company_admin.
Forbidden(sid, rows) ==
    /\ ReqSession(sid).role = "company_admin"
    /\ \/ rows = {}
       \/ \E r \in rows : r.company_id # ReqSession(sid).company_id

\* PUT /api/contacts/:id; name is "" when the body omits nameEn.
UpdateContact(sid, id, name) ==
    LET reply(status, error, data) ==
            last' = Exchange("update-contact", sid, "", name, id, status, error, data)
        result == {c \in contacts : c.id = id}
        updated(c) == [c EXCEPT !.name_en = IF name # "" THEN name ELSE @]
    IN
    IF requireAuth(sid) # "" THEN reply(401, requireAuth(sid), {}) /\ untouched
    ELSE IF Forbidden(sid, result) THEN reply(403, "Forbidden", {}) /\ untouched
    ELSE IF result = {} THEN reply(404, "Contact not found", {}) /\ untouched
    ELSE /\ contacts' = (contacts \ result) \cup {updated(c) : c \in result}
         /\ reply(200, "", {updated(c) : c \in result})
         /\ UNCHANGED <<inflight, passes, env, now, auth_codes, sessions, companies, leads, files, nextId>>

\* DELETE /api/contacts/:id
DeleteContact(sid, id) ==
    LET reply(status, error, data) ==
            last' = Exchange("delete-contact", sid, "", "", id, status, error, data)
        result == {c \in contacts : c.id = id}
    IN
    IF requireAuth(sid) # "" THEN reply(401, requireAuth(sid), {}) /\ untouched
    ELSE IF Forbidden(sid, result) THEN reply(403, "Forbidden", {}) /\ untouched
    ELSE IF result = {} THEN reply(404, "Contact not found", {}) /\ untouched
    ELSE /\ contacts' = contacts \ result
         /\ reply(200, "", {})
         /\ UNCHANGED <<inflight, passes, env, now, auth_codes, sessions, companies, leads, files, nextId>>

\* POST /api/leads (public); named is whether customerName is given.
CreateLead(contactId, named) ==
    LET reply(status, error, data) ==
            last' = Exchange("create-lead", NULL, "", "", contactId, status, error, data)
        contactResult == {c \in contacts : c.id = contactId}
    IN
    IF ~sql THEN reply(500, "Database not configured", {}) /\ untouched
    ELSE IF contactId = NULL \/ ~named
    THEN reply(400, "Contact ID and customer name are required", {}) /\ untouched
    ELSE IF contactResult = {} THEN reply(404, "Contact not found", {}) /\ untouched
    ELSE \E c \in contactResult :
         LET lead == [id |-> nextId.lead, contact_id |-> contactId,
                      company_id |-> c.company_id] IN
         /\ nextId.lead <= MaxLeads
         /\ leads' = leads \cup {lead}
         /\ nextId' = Bump("lead")
         /\ reply(200, "", {lead.id})
         /\ UNCHANGED <<inflight, passes, env, now, auth_codes, sessions, companies, contacts, files>>

\* GET /api/leads
ListLeads(sid, q) ==
    LET reply(status, error, data) ==
            last' = Exchange("list-leads", sid, "", "", q, status, error, data)
    IN
    /\ IF requireAuth(sid) # "" THEN reply(401, requireAuth(sid), {})
       ELSE IF ReqSession(sid).role = "company_admin"
       THEN reply(200, "", {l \in leads : l.company_id = ReqSession(sid).company_id})
       ELSE IF q # NULL THEN reply(200, "", {l \in leads : l.company_id = q})
       ELSE reply(200, "", leads)
    /\ untouched

\* DELETE /api/leads/:id
DeleteLead(sid, id) ==
    LET reply(status, error, data) ==
            last' = Exchange("delete-lead", sid, "", "", id, status, error, data)
        result == {l \in leads : l.id = id}
    IN
    IF requireAuth(sid) # "" THEN reply(401, requireAuth(sid), {}) /\ untouched
    ELSE IF Forbidden(sid, result) THEN reply(403, "Forbidden", {}) /\ untouched
    ELSE IF result = {} THEN reply(404, "Lead not found", {}) /\ untouched
    ELSE /\ leads' = leads \ result
         /\ reply(200, "", {})
         /\ UNCHANGED <<inflight, passes, env, now, auth_codes, sessions, companies, contacts, files, nextId>>

(* ------------------------ uploads, card exteriors --------------------- *)

\* What a multipart request carries in the expected field: no file, an image
\* that passes fileFilter and the size limit, or a file fileFilter rejects.
Parts == {"none", "image", "rejected"}

\* logoUpload.single(field), the middleware in front of both upload handlers:
\* multer writes an accepted file to public/logos before the handler runs.
Stored(part) == IF part = "image" THEN files \cup {nextId.file} ELSE files

\* The part of an upload handler that follows the middleware; roles are the
\* roles the handler lets through.
Upload(op, sid, part, side, roles) ==
    LET reply(status, error, data) ==
            last' = Exchange(op, sid, "", side, NULL, status, error, data)
    IN
    /\ part = "image" => nextId.file <= MaxFiles
    /\ files' = Stored(part)
    /\ nextId' = IF part = "image" THEN Bump("file") ELSE nextId
    /\ IF part = "rejected" THEN reply(400, "Invalid file type", {})  \* error handler
       ELSE IF requireAuth(sid) # "" THEN reply(401, requireAuth(sid), {})
       ELSE IF ReqSession(sid).role \notin roles THEN reply(403, "Forbidden", {})
       ELSE IF part = "none" THEN reply(400, "No file uploaded", {})
       ELSE IF side \notin {"front", "back"} THEN reply(400, "Invalid side parameter", {})
       ELSE reply(200, "", {nextId.file})
    /\ UNCHANGED <<inflight, passes, env, now, auth_codes, sessions, companies, contacts, leads>>

\* POST /api/upload/logo
UploadLogo(sid, part) == Upload("upload-logo", sid, part, "front", {"super_admin"})

\* POST /api/upload/card-exterior
UploadCardExterior(sid, part, side) ==
    Upload("upload-card-exterior", sid, part, side, {"super_admin", "company_admin"})

\* Company admin can only view / update their own company.
ForeignCompany(sid, id) ==
    ReqSession(sid).role = "company_admin" /\ ReqSession(sid).company_id # id

\* PUT /api/companies/:id/card-exteriors; cardFront is "" when the body omits it.
PutCardExteriors(sid, id, cardFront) ==
    LET reply(status, error, data) ==
            last' = Exchange("put-card-exteriors", sid, "", cardFront, id, status,
                             error, data)
        result == {c \in companies : c.id = id}
        updated(c) == [c EXCEPT !.card_front = IF cardFront # "" THEN cardFront ELSE @]
    IN
    IF requireAuth(sid) # "" THEN reply(401, requireAuth(sid), {}) /\ untouched
    ELSE IF ForeignCompany(sid, id) THEN reply(403, "Forbidden", {}) /\ untouched
    ELSE IF result = {} THEN reply(404, "Company not found", {}) /\ untouched
    ELSE /\ companies' = (companies \ result) \cup {updated(c) : c \in result}
         /\ reply(200, "", {updated(c).card_front : c \in result})
         /\ UNCHANGED <<inflight, passes, env, now, auth_codes, sessions, contacts, leads, files, nextId>>

\* GET /api/companies/:id/card-exteriors
GetCardExteriors(sid, id) ==
    LET reply(status, error, data) ==
            last' = Exchange("get-card-exteriors", sid, "", "", id, status, error, data)
        result == {c \in companies : c.id = id}
    IN
    /\ IF requireAuth(sid) # "" THEN reply(401, requireAuth(sid), {})
       ELSE IF ForeignCompany(sid, id) THEN reply(403, "Forbidden", {})
       ELSE IF result = {} THEN reply(404, "Company not found", {})
       ELSE reply(200, "", {c.card_front : c \in result})
    /\ untouched

(* ----------------------------- wallet passes --------------------------- *)

\* Values of GOOGLE_WALLET_SERVICE_ACCOUNT_KEY: unset; two texts that are
\* neither JSON nor the path of a file; the path of a file holding the JSON
\* credentials; JSON credentials whose private_key is no PKCS#8 text, is an EC
\* key (RS256 cannot sign with it), is an RSA key.
GoogleKeys ==
    {"", "garbage-A", "garbage-B", "/run/secrets/sa.json",
     "{private_key: not-pem}", "{private_key: ec-key}", "{private_key: rsa-key}"}

\* Values of SAMSUNG_WALLET_PRIVATE_KEY: unset; a text that is no PKCS#8 PEM;
\* the PEM of an EC key; the PEM of an RSA key; the path of a file holding the
\* PEM of an RSA key.
SamsungKeys == {"", "not-pem", "ec-key", "rsa-key", "/run/secrets/samsung.pem"}

\* GOOGLE_WALLET_CONFIG
GOOGLE_WALLET_CONFIG ==
    [issuerId |-> env.GOOGLE_WALLET_ISSUER_ID,
     serviceAccountKey |-> env.GOOGLE_WALLET_SERVICE_ACCOUNT_KEY,
     classId |-> "BusinessCard"]

\* SAMSUNG_WALLET_CONFIG
SAMSUNG_WALLET_CONFIG ==
    [partnerId |-> env.SAMSUNG_WALLET_PARTNER_ID,
     cardId |-> env.SAMSUNG_WALLET_CARD_ID,
     certificateId |-> env.SAMSUNG_WALLET_CERTIFICATE_ID,
     privateKey |-> env.SAMSUNG_WALLET_PRIVATE_KEY]

\* Mutant of GoogleConfigured: the issuer id is not required.
GoogleConfiguredKeyOnly(cfg) == cfg.serviceAccountKey # ""

\* get isConfigured() of GOOGLE_WALLET_CONFIG
GoogleConfigured(cfg) == cfg.issuerId # "" /\ cfg.serviceAccountKey # ""

\* get isConfigured() of SAMSUNG_WALLET_CONFIG
SamsungConfigured(cfg) ==
    cfg.partnerId # "" /\ cfg.cardId # "" /\ cfg.certificateId # "" /\ cfg.privateKey # ""

\* JSON.parse of a text: the credentials object, or the SyntaxError.
JSONparse(text) ==
    CASE text = "{private_key: not-pem}" ->
            [ok |-> TRUE, private_key |-> "not-pem", client_email |-> "sa@wallet"]
      [] text = "{private_key: ec-key}" ->
            [ok |-> TRUE, private_key |-> "ec-key", client_email |-> "sa@wallet"]
      [] text = "{private_key: rsa-key}" ->
            [ok |-> TRUE, private_key |-> "rsa-key", client_email |-> "sa@wallet"]
      [] OTHER -> [ok |-> FALSE, message |-> <<"Unexpected token in JSON", text>>]

\* fs.readFileSync(path, 'utf8'): the content, or the ENOENT error, whose
\* message names the path.
readFileSync(path) ==
    IF path = "/run/secrets/sa.json"
    THEN [ok |-> TRUE, content |-> "{private_key: rsa-key}"]
    ELSE IF path = "/run/secrets/samsung.pem"
    THEN [ok |-> TRUE, content |-> "rsa-key"]
    ELSE [ok |-> FALSE, message |-> <<"ENOENT: no such file or directory, open", path>>]

\* The credential parsing of generateGoogleWalletJWT: the key as literal JSON
\* first, as the path of a JSON file second.  calls lists what was performed.
Credentials(key) ==
    IF JSONparse(key).ok
    THEN [ok |-> TRUE, value |-> JSONparse(key), calls |-> <<"JSON.parse">>]
    ELSE IF ~readFileSync(key).ok
    THEN [ok |-> FALSE, message |-> readFileSync(key).message,
          calls |-> <<"JSON.parse", "readFileSync">>]
    ELSE LET parsed == JSONparse(readFileSync(key).content) IN
         IF parsed.ok
         THEN [ok |-> TRUE, value |-> parsed,
               calls |-> <<"JSON.parse", "readFileSync", "JSON.parse">>]
         ELSE [ok |-> FALSE, message |-> parsed.message,
               calls |-> <<"JSON.parse", "readFileSync", "JSON.parse">>]

\* importPKCS8(pem, 'RS256') followed by SignJWT(claims).sign(privateKey):
\* importPKCS8 takes the text of a key and nothing else, so a path is refused
\* like any other text that is no PKCS#8 PEM.
SignRS256(pem, claims) ==
    CASE pem = "rsa-key" ->
            [ok |-> TRUE, token |-> [alg |-> "RS256", claims |-> claims, key |-> pem],
             calls |-> <<"importPKCS8", "sign">>]
      [] pem = "ec-key" ->
            [ok |-> FALSE, message |-> <<"Invalid key for this operation">>,
             calls |-> <<"importPKCS8", "sign">>]
      [] OTHER ->
            [ok |-> FALSE, message |-> <<"\"pkcs8\" must be PKCS#8 formatted string">>,
             calls |-> <<"importPKCS8">>]

\* The characters /[^a-zA-Z0-9_-]/ leaves alone.
AllowedChars ==
    {"a","b","c","d","e","f","g","h","i","j","k","l","m","n","o","p","q","r","s","t",
     "u","v","w","x","y","z",
     "A","B","C","D","E","F","G","H","I","J","K","L","M","N","O","P","Q","R","S","T",
     "U","V","W","X","Y","Z",
     "0","1","2","3","4","5","6","7","8","9","_","-"}

\* `${n}` of a non-negative integer: its decimal digits.
RECURSIVE Digits(_)
Digits(n) ==
    LET d == <<"0","1","2","3","4","5","6","7","8","9">>[(n % 10) + 1] IN
    IF n < 10 THEN <<d>> ELSE Digits(n \div 10) \o <<d>>

\* The text of a contact id, as a sequence of characters: ids 1 and 3 are
\* longer than the prefix and agree on it, id 2 is short with a character
\* outside the allowed set.
IdText(id) ==
    CASE id = 1 -> <<"j","a","n","e",".","d","o","e","@","a","c","m","e","-","c","o",
                     "r","p","_","2","0","2","4">>
      [] id = 2 -> <<"a","/","b">>
      [] id = 3 -> <<"j","a","n","e",".","d","o","e","@","a","c","m","e","-","c","o",
                     "r","p","_","2","0","2","5">>
      [] OTHER -> <<"c">> \o Digits(id)

PREFIX_LEN == 20

\* Mutant of Prefix: the contact id is not cut.
PrefixWhole(text) == text

\* contact.id.substring(0, 20)
Prefix(text) ==
    SubSeq(text, 1, IF Len(text) < PREFIX_LEN THEN Len(text) ELSE PREFIX_LEN)

\* .replace(/[^a-zA-Z0-9_-]/g, '_')
Sanitize(text) == [i \in 1 .. Len(text) |-> IF text[i] \in AllowedChars THEN text[i] ELSE "_"]

\* Date.now(), in the units of the clock.
DateNow == now

\* const uniqueId = `${contact.id.substring(0, 20)}_${Date.now()}`.replace(...)
UniqueId(contactId, t) == Sanitize(Prefix(IdText(contactId)) \o <<"_">> \o Digits(t))

\* const objectId = `${issuerId}.${uniqueId}`
ObjectId(issuerId, contactId, t) == <<issuerId, ".">> \o UniqueId(contactId, t)

\* generateGoogleWalletJWT(contact, company), with the configuration and the
\* clock it reads: the signed JWT and its object id, or the error thrown.
generateGoogleWalletJWT(cfg, contact, company, t) ==
    IF ~GoogleConfigured(cfg)
    THEN [ok |-> FALSE, message |-> <<"Google Wallet not configured">>, calls |-> <<>>]
    ELSE LET credentials == Credentials(cfg.serviceAccountKey) IN
         IF ~credentials.ok
         THEN [ok |-> FALSE, message |-> credentials.message, calls |-> credentials.calls]
         ELSE LET objectId == ObjectId(cfg.issuerId, contact.id, t)
                  claims == [iss |-> credentials.value.client_email, aud |-> "google",
                             typ |-> "savetowallet",
                             payload |-> [id |-> objectId,
                                          classId |-> <<cfg.issuerId, ".", cfg.classId>>,
                                          cardTitle |-> contact.name_en]]
                  signed == SignRS256(credentials.value.private_key, claims)
              IN IF signed.ok
                 THEN [ok |-> TRUE, jwt |-> signed.token, objectId |-> objectId,
                       calls |-> credentials.calls \o signed.calls]
                 ELSE [ok |-> FALSE, message |-> signed.message,
                       calls |-> credentials.calls \o signed.calls]

\* generateSamsungWalletToken(contact, company), likewise.
generateSamsungWalletToken(cfg, contact, company, t) ==
    IF ~SamsungConfigured(cfg)
    THEN [ok |-> FALSE, message |-> <<"Samsung Wallet not configured">>, calls |-> <<>>]
    ELSE LET payload == [partnerId |-> cfg.partnerId, cardId |-> cfg.cardId,
                         refId |-> contact.id, title |-> contact.name_en,
                         utcTimestamp |-> t, kid |-> cfg.certificateId]
             signed == SignRS256(cfg.privateKey, payload)
         IN IF signed.ok
            THEN [ok |-> TRUE, jws |-> signed.token, calls |-> signed.calls]
            ELSE [ok |-> FALSE, message |-> signed.message, calls |-> signed.calls]

\* GET /api/wallet/status (public)
WalletStatus ==
    /\ last' = Exchange("wallet-status", NULL, "", "", NULL, 200, "",
                        {[googleWallet |-> GoogleConfigured(GOOGLE_WALLET_CONFIG),
                          samsungWallet |-> SamsungConfigured(SAMSUNG_WALLET_CONFIG)]})
    /\ untouched

\* GET /api/wallet/google/:contactId (public)
GoogleWallet(contactId) ==
    LET reply(status, error, data, calls) ==
            last' = [Exchange("wallet-google", NULL, "", "", contactId, status, error,
                              data) EXCEPT !.calls = calls]
        result == {c \in contacts : c.id = contactId}
    IN
    IF ~sql THEN reply(500, "Database not configured", {}, <<>>) /\ untouched
    ELSE IF ~GoogleConfigured(GOOGLE_WALLET_CONFIG)
    THEN reply(503, "Google Wallet not configured", {}, <<>>) /\ untouched
    ELSE IF result = {} THEN reply(404, "Contact not found", {}, <<>>) /\ untouched
    ELSE \E contact \in result :
         LET company == {c \in companies : c.id = contact.company_id}
             built == generateGoogleWalletJWT(GOOGLE_WALLET_CONFIG, contact, company,
                                              DateNow)
         IN IF built.ok
            THEN /\ Len(passes) < MaxBuilds
                 /\ passes' = Append(passes, built.objectId)
                 /\ reply(200, "", {[saveUrl |-> <<"https://pay.google.com/gp/v/save/",
                                                   built.jwt>>,
                                     provider |-> "google"]}, built.calls)
                 /\ UNCHANGED <<inflight, env, now, auth_codes, sessions, companies,
                                contacts, leads, files, nextId>>
            ELSE /\ reply(500, "Failed to generate Google Wallet pass",
                          {[message |-> built.message]}, built.calls)
                 /\ untouched

\* GET /api/wallet/samsung/:contactId (public)
SamsungWallet(contactId) ==
    LET reply(status, error, data, calls) ==
            last' = [Exchange("wallet-samsung", NULL, "", "", contactId, status, error,
                              data) EXCEPT !.calls = calls]
        result == {c \in contacts : c.id = contactId}
    IN
    /\ IF ~sql THEN reply(500, "Database not configured", {}, <<>>)
       ELSE IF ~SamsungConfigured(SAMSUNG_WALLET_CONFIG)
       THEN reply(503, "Samsung Wallet not configured", {}, <<>>)
       ELSE IF result = {} THEN reply(404, "Contact not found", {}, <<>>)
       ELSE \E contact \in result :
            LET company == {c \in companies : c.id = contact.company_id}
                built == generateSamsungWalletToken(SAMSUNG_WALLET_CONFIG, contact,
                                                    company, DateNow)
            IN IF built.ok
               THEN reply(200, "", {[saveUrl |-> <<"https://a.swallet.link/atw/v3/",
                                                   SAMSUNG_WALLET_CONFIG.cardId,
                                                   "#Clip?cdata=", built.jws>>,
                                     provider |-> "samsung"]}, built.calls)
               ELSE reply(500, "Failed to generate Samsung Wallet pass",
                          {[message |-> built.message]}, built.calls)
    /\ untouched

(* ------------- requests served one store statement at a time ---------- *)

\* Every `await sql` hands control back to the event loop, so the statements
\* of requests in flight interleave.  A request in flight is a record: pc is
\* the statement it waits to issue next, rows the rows its SELECT returned,
\* session the row requireAuth read, created the id of the session it has
\* inserted (NULL for none), status and error the response once it is sent.
Idle ==
    [pc |-> "idle", op |-> "", sid |-> NULL, email |-> "", code |-> "",
     target |-> NULL, name |-> "", rows |-> {}, session |-> {}, status |-> NULL,
     error |-> "", created |-> NULL]

\* The request r with its response sent.
Served(r, status, error) == [r EXCEPT !.pc = "done", !.status = status, !.error = error]

\* The response of the request r, as the last exchange.
Response(r, status, error, data) ==
    Exchange(r.op, r.sid, r.email, r.code, r.target, status, error, data)

\* POST /api/auth/verify-code up to its first statement: the bypass INSERT or
\* the SELECT of the challenge.  ok is whether the statement succeeds; a
\* statement that throws lands in the handler's catch.
VerifySelect(p, email, code, ok) ==
    LET r == [Idle EXCEPT !.op = "verify-code", !.email = email, !.code = code]
        created == NewSession(email, "super_admin", NULL)
        reply(status, error) ==
            /\ inflight' = [inflight EXCEPT ![p] = Served(r, status, error)]
            /\ last' = Response(r, status, error, {})
            /\ UNCHANGED <<passes, env, now, auth_codes, sessions, companies, contacts,
                           leads, files, nextId>>
    IN
    /\ inflight[p].pc = "idle"
    /\ IF ~sql THEN reply(500, "Database not configured")
       ELSE IF ~ok THEN reply(500, "Server error")
       ELSE IF isBypass(email, code)
       THEN /\ nextId.session <= MaxSessions
            /\ sessions' = sessions \cup {created}
            /\ nextId' = Bump("session")
            /\ inflight' = [inflight EXCEPT
                               ![p] = [Served(r, 200, "") EXCEPT !.created = created.id]]
            /\ last' = Response(r, 200, "", {created.id})
            /\ UNCHANGED <<passes, env, now, auth_codes, companies, contacts, leads, files>>
       ELSE /\ inflight' = [inflight EXCEPT
                               ![p] = [r EXCEPT !.pc = "selected",
                                                !.rows = {a \in auth_codes : a.email = email}]]
            /\ UNCHANGED <<passes, env, now, auth_codes, sessions, companies, contacts,
                           leads, files, nextId, last>>

\* verify-code after its SELECT: the checks on the row read, then the DELETE
\* of an expired challenge or the INSERT of the session.
VerifyInsert(p, ok) ==
    LET r == inflight[p]
        created == NewSession(r.email, "super_admin", NULL)
        reply(status, error) ==
            /\ inflight' = [inflight EXCEPT ![p] = Served(r, status, error)]
            /\ last' = Response(r, status, error, {})
    IN
    /\ r.pc = "selected"
    /\ r.op = "verify-code"
    /\ IF r.rows = {}
       THEN /\ reply(401, "No pending verification")
            /\ UNCHANGED <<passes, env, now, auth_codes, sessions, companies, contacts,
                           leads, files, nextId>>
       ELSE LET authData == CHOOSE a \in r.rows : TRUE IN
            IF CodeExpired(authData)
            THEN /\ auth_codes' = IF ok THEN ExpireChallenge(r.email) ELSE auth_codes
                 /\ IF ok THEN reply(401, "Code expired") ELSE reply(500, "Server error")
                 /\ UNCHANGED <<passes, env, now, sessions, companies, contacts, leads,
                                files, nextId>>
            ELSE IF authData.code # r.code
            THEN /\ reply(401, "Invalid code")
                 /\ UNCHANGED <<passes, env, now, auth_codes, sessions, companies,
                                contacts, leads, files, nextId>>
            ELSE IF ~ok
            THEN /\ reply(500, "Server error")
                 /\ UNCHANGED <<passes, env, now, auth_codes, sessions, companies,
                                contacts, leads, files, nextId>>
            ELSE /\ nextId.session <= MaxSessions
                 /\ sessions' = sessions \cup {created}
                 /\ nextId' = Bump("session")
                 /\ inflight' = [inflight EXCEPT
                                    ![p] = [r EXCEPT !.pc = "inserted",
                                                     !.created = created.id]]
                 /\ UNCHANGED <<passes, env, now, auth_codes, companies, contacts, leads,
                                files, last>>

\* verify-code after its INSERT: the DELETE of the used challenge, then the
\* response.
VerifyDelete(p, ok) ==
    LET r == inflight[p] IN
    /\ r.pc = "inserted"
    /\ r.op = "verify-code"
    /\ auth_codes' = IF ok THEN ConsumeChallenge(r.email) ELSE auth_codes
    /\ inflight' = [inflight EXCEPT
                       ![p] = IF ok THEN Served(r, 200, "")
                              ELSE Served(r, 500, "Server error")]
    /\ last' = IF ok THEN Response(r, 200, "", {r.created})
               ELSE Response(r, 500, "Server error", {})
    /\ UNCHANGED <<passes, env, now, sessions, companies, contacts, leads, files, nextId>>

\* PUT and DELETE /api/contacts/:id up to the end of requireAuth: the SELECT
\* of the session, whose row becomes req.session.
ContactAuth(p, op, sid, id, name) ==
    LET r == [Idle EXCEPT !.op = op, !.sid = sid, !.target = id, !.name = name] IN
    /\ inflight[p].pc = "idle"
    /\ IF requireAuth(sid) # ""
       THEN /\ inflight' = [inflight EXCEPT ![p] = Served(r, 401, requireAuth(sid))]
            /\ last' = Response(r, 401, requireAuth(sid), {})
       ELSE /\ inflight' = [inflight EXCEPT
                               ![p] = [r EXCEPT !.pc = "authed",
                                                !.session = {ReqSession(sid)}]]
            /\ UNCHANGED last
    /\ UNCHANGED <<passes, env, now, auth_codes, sessions, companies, contacts, leads,
                   files, nextId>>

\* The permission check of a company admin's PUT or DELETE /api/contacts/:id:
\* SELECT company_id FROM contacts WHERE id = ${id}, compared with req.session.
ContactCheck(p) ==
    LET r == inflight[p]
        check == {c \in contacts : c.id = r.target}
    IN
    /\ r.pc = "authed"
    /\ \E session \in r.session :
          /\ session.role = "company_admin"
          /\ IF check = {} \/ \E c \in check : c.company_id # session.company_id
             THEN /\ inflight' = [inflight EXCEPT ![p] = Served(r, 403, "Forbidden")]
                  /\ last' = Response(r, 403, "Forbidden", {})
             ELSE /\ inflight' = [inflight EXCEPT
                                     ![p] = [r EXCEPT !.pc = "checked", !.rows = check]]
                  /\ UNCHANGED last
    /\ UNCHANGED <<passes, env, now, auth_codes, sessions, companies, contacts, leads,
                   files, nextId>>

\* The write of PUT or DELETE /api/contacts/:id: UPDATE or DELETE ... WHERE
\* id = ${id}, issued after the check for a company admin and right after
\* requireAuth for the super admin.
ContactWrite(p) ==
    LET r == inflight[p]
        result == {c \in contacts : c.id = r.target}
        updated(c) == [c EXCEPT !.name_en = IF r.name # "" THEN r.name ELSE @]
    IN
    /\ \/ r.pc = "checked"
       \/ r.pc = "authed" /\ \E session \in r.session : session.role # "company_admin"
    /\ IF result = {}
       THEN /\ inflight' = [inflight EXCEPT ![p] = Served(r, 404, "Contact not found")]
            /\ last' = Response(r, 404, "Contact not found", {})
            /\ UNCHANGED contacts
       ELSE /\ contacts' = IF r.op = "update-contact"
                           THEN (contacts \ result) \cup {updated(c) : c \in result}
                           ELSE contacts \ result
            /\ inflight' = [inflight EXCEPT ![p] = Served(r, 200, "")]
            /\ last' = Response(r, 200, "",
                                IF r.op = "update-contact"
                                THEN {updated(c) : c \in result} ELSE {})
    /\ UNCHANGED <<passes, env, now, auth_codes, sessions, companies, leads, files,
                   nextId>>

\* The response of request p has gone out and its slot is free again.
Finish(p) ==
    /\ inflight[p].pc = "done"
    /\ inflight' = [inflight EXCEPT ![p] = Idle]
    /\ UNCHANGED <<passes, env, now, auth_codes, sessions, companies, contacts, leads,
                   files, nextId, last>>

\* request-code served while no other request is in flight, so that the
\* verify-code requests in flight together are about one challenge.
IssueChallenge(email, code) ==
    /\ \A p \in DOMAIN inflight : inflight[p].pc = "idle"
    /\ RequestCode(email, code, TRUE)

\* The clock moves on between requests: by one unit (at most MaxShortTicks
\* times in a row) or by one unit less than a session's life.
Tick(d) ==
    /\ now + d <= MaxTime
    /\ (now + d) % (SESSION_TTL - 1) <= MaxShortTicks
    /\ now' = now + d
    /\ last' = NoExchange
    /\ UNCHANGED <<inflight, passes, env, auth_codes, sessions, companies, contacts, leads, files, nextId>>

(* ------------------------------ the system ---------------------------- *)

\* x-session-id headers a client may send: none, or any identifier.
Sids == NULL .. MaxSessions
CompanyIds == 1 .. MaxCompanies
ContactIds == 1 .. MaxContacts
LeadIds == 1 .. MaxLeads
Images == {"/logos/a.png"}
PassContactIds == 1 .. MaxPassContacts
\* The requests the server has in flight at one time.
Procs == 1 .. MaxRequests

\* The server starts on an empty database.  The wallet providers are left
\* unconfigured here; InitWallet has the deployments that configure them.
Init ==
    /\ env \in [NODE_ENV : NodeEnvs, ADMIN_BYPASS_CODE : BypassSettings,
                DATABASE_URL : BOOLEAN, DEBUG_MODE : BOOLEAN,
                GOOGLE_WALLET_ISSUER_ID : {""},
                GOOGLE_WALLET_SERVICE_ACCOUNT_KEY : {""},
                SAMSUNG_WALLET_PARTNER_ID : {""},
                SAMSUNG_WALLET_CARD_ID : {""},
                SAMSUNG_WALLET_CERTIFICATE_ID : {""},
                SAMSUNG_WALLET_PRIVATE_KEY : {""}]
    /\ now = 0
    /\ auth_codes = {}
    /\ sessions = {}
    /\ companies = {}
    /\ contacts = {}
    /\ leads = {}
    /\ files = {}
    /\ passes = <<>>
    /\ nextId = [session |-> 1, company |-> 1, lead |-> 1, file |-> 1]
    /\ inflight = [p \in Procs |-> Idle]
    /\ last = NoExchange

\* The session authority, the company administration it depends on, and time.
Next ==
    \/ \E e \in Emails, c \in Codes, d \in BOOLEAN : RequestCode(e, c, d)
    \/ \E e \in Emails, c \in SubmittedCodes : VerifyCode(e, c)
    \/ \E e \in Emails, p \in Passwords : CompanyLogin(e, p)
    \/ \E s \in Sids : Logout(s)
    \/ \E s \in Sids : GetSession(s)
    \/ \E s \in Sids : CreateCompany(s, "ACME@corp.com", "pw1")
    \/ \E d \in {1, SESSION_TTL - 1} : Tick(d)

Spec == Init /\ [][Next]_vars

\* A development deployment: database configured, default bypass code.
InitData ==
    /\ Init
    /\ env.NODE_ENV = "development"
    /\ env.ADMIN_BYPASS_CODE = ""
    /\ env.DATABASE_URL
    /\ ~env.DEBUG_MODE

\* The tenant data handlers at one instant of the clock: the super admin signs
\* in and creates companies, company admins sign in, and contacts, leads and
\* card exteriors are read and changed.
NextData ==
    \/ \E c \in {DEFAULT_BYPASS, "123456"} : VerifyCode(SUPER_ADMIN_EMAIL, c)
    \/ \E e \in TenantEmails, p \in Passwords : CompanyLogin(e, p)
    \/ \E s \in Sids, e \in TenantEmails : CreateCompany(s, e, "pw1")
    \/ \E s \in Sids : ListCompanies(s)
    \/ \E s \in Sids, i \in CompanyIds, e \in TenantEmails : UpdateCompany(s, i, e, "")
    \/ \E s \in Sids, i \in CompanyIds : DeleteCompany(s, i)
    \/ \E s \in Sids, q \in CompanyIds \cup {NULL} : ListContacts(s, q)
    \/ \E i \in ContactIds : GetContact(i)
    \/ \E s \in Sids, b \in CompanyIds \cup {NULL}, i \in ContactIds :
          CreateContact(s, b, i, "Jane")
    \/ \E s \in Sids, i \in ContactIds, n \in {"June", ""} : UpdateContact(s, i, n)
    \/ \E s \in Sids, i \in ContactIds : DeleteContact(s, i)
    \/ \E i \in ContactIds \cup {NULL}, n \in BOOLEAN : CreateLead(i, n)
    \/ \E s \in Sids, q \in CompanyIds \cup {NULL} : ListLeads(s, q)
    \/ \E s \in Sids, i \in LeadIds : DeleteLead(s, i)
    \/ \E s \in Sids, i \in CompanyIds, f \in Images \cup {""} : PutCardExteriors(s, i, f)
    \/ \E s \in Sids, i \in CompanyIds : GetCardExteriors(s, i)

SpecData == InitData /\ [][NextData]_vars

\* The upload handlers, with the sign-in operations that lead to them.
NextUpload ==
    \/ \E c \in {DEFAULT_BYPASS, "123456"} : VerifyCode(SUPER_ADMIN_EMAIL, c)
    \/ \E e \in CompanyEmails, p \in Passwords : CompanyLogin(e, p)
    \/ \E s \in Sids : Logout(s)
    \/ \E s \in Sids, e \in CompanyEmails : CreateCompany(s, e, "pw1")
    \/ \E s \in Sids, p \in Parts : UploadLogo(s, p)
    \/ \E s \in Sids, p \in Parts, side \in {"front", "back", ""} :
          UploadCardExterior(s, p, side)

SpecUpload == InitData /\ [][NextUpload]_vars

\* Deployments with the wallet providers configured or not, with or without a
\* database, in development.
InitWallet ==
    /\ env \in [NODE_ENV : {"development"}, ADMIN_BYPASS_CODE : {""},
                DATABASE_URL : BOOLEAN, DEBUG_MODE : {FALSE},
                GOOGLE_WALLET_ISSUER_ID : {"", "3388"},
                GOOGLE_WALLET_SERVICE_ACCOUNT_KEY : GoogleKeys,
                SAMSUNG_WALLET_PARTNER_ID : {"", "partner"},
                SAMSUNG_WALLET_CARD_ID : {"card"},
                SAMSUNG_WALLET_CERTIFICATE_ID : {"cert"},
                SAMSUNG_WALLET_PRIVATE_KEY : SamsungKeys]
    /\ now = 0
    /\ auth_codes = {}
    /\ sessions = {}
    /\ companies = {}
    /\ contacts = {}
    /\ leads = {}
    /\ files = {}
    /\ passes = <<>>
    /\ nextId = [session |-> 1, company |-> 1, lead |-> 1, file |-> 1]
    /\ inflight = [p \in Procs |-> Idle]
    /\ last = NoExchange

\* The wallet routes, with the sign-in and the data they need, and time, which
\* moves on in long steps.
NextWallet ==
    \/ VerifyCode(SUPER_ADMIN_EMAIL, DEFAULT_BYPASS)
    \/ \E s \in Sids : CreateCompany(s, "acme@corp.com", "pw1")
    \/ \E s \in Sids, i \in PassContactIds : CreateContact(s, 1, i, "Jane")
    \/ WalletStatus
    \/ \E i \in PassContactIds : GoogleWallet(i)
    \/ \E i \in PassContactIds : SamsungWallet(i)
    \/ Tick(SESSION_TTL - 1)

SpecWallet == InitWallet /\ [][NextWallet]_vars

\* Deployments with a database and no bypass code configured.
InitVerify ==
    /\ Init
    /\ env.ADMIN_BYPASS_CODE = ""
    /\ env.DATABASE_URL
    /\ ~env.DEBUG_MODE

\* verify-code requests served statement by statement, any of which may fail,
\* with the challenges they are about and the passing of time.
NextVerify ==
    \/ \E c \in Codes : IssueChallenge(SUPER_ADMIN_EMAIL, c)
    \/ \E p \in Procs, c \in SubmittedCodes, ok \in BOOLEAN :
          VerifySelect(p, SUPER_ADMIN_EMAIL, c, ok)
    \/ \E p \in Procs, ok \in BOOLEAN : VerifyInsert(p, ok)
    \/ \E p \in Procs, ok \in BOOLEAN : VerifyDelete(p, ok)
    \/ \E p \in Procs : Finish(p)
    \/ Tick(1)

SpecVerify == InitVerify /\ [][NextVerify]_vars

\* A development deployment in use: two companies exist and the admin of
\* each is signed in; the super admin has signed out.
InitContacts ==
    /\ env = [NODE_ENV |-> "development", ADMIN_BYPASS_CODE |-> "",
              DATABASE_URL |-> TRUE, DEBUG_MODE |-> FALSE,
              GOOGLE_WALLET_ISSUER_ID |-> "",
              GOOGLE_WALLET_SERVICE_ACCOUNT_KEY |-> "",
              SAMSUNG_WALLET_PARTNER_ID |-> "",
              SAMSUNG_WALLET_CARD_ID |-> "",
              SAMSUNG_WALLET_CERTIFICATE_ID |-> "",
              SAMSUNG_WALLET_PRIVATE_KEY |-> ""]
    /\ now = 1
    /\ auth_codes = {}
    /\ companies = {[id |-> 1, email |-> "acme@corp.com", password |-> "pw1",
                     card_front |-> ""],
                    [id |-> 2, email |-> "zeta@corp.com", password |-> "pw1",
                     card_front |-> ""]}
    /\ sessions = {[id |-> 2, email |-> "acme@corp.com", role |-> "company_admin",
                    company_id |-> 1, created_at |-> 1,
                    expires_at |-> 1 + SESSION_TTL],
                   [id |-> 3, email |-> "zeta@corp.com", role |-> "company_admin",
                    company_id |-> 2, created_at |-> 1,
                    expires_at |-> 1 + SESSION_TTL]}
    /\ contacts = {}
    /\ leads = {}
    /\ files = {}
    /\ passes = <<>>
    /\ nextId = [session |-> 4, company |-> 3, lead |-> 1, file |-> 1]
    /\ inflight = [p \in Procs |-> Idle]
    /\ last = NoExchange

\* Contact updates and deletions served statement by statement, next to
\* contact creations and deletions served in one piece.
NextContacts ==
    \/ \E p \in Procs, op \in {"update-contact", "delete-contact"}, s \in {2, 3},
          i \in ContactIds : ContactAuth(p, op, s, i, "June")
    \/ \E p \in Procs : ContactCheck(p)
    \/ \E p \in Procs : ContactWrite(p)
    \/ \E p \in Procs : Finish(p)
    \/ \E s \in {2, 3}, i \in ContactIds : CreateContact(s, NULL, i, "Jane")
    \/ \E s \in {2, 3}, i \in ContactIds : DeleteContact(s, i)

SpecContacts == InitContacts /\ [][NextContacts]_vars

\* The company administration with e-mails that differ in letter case only,
\* and the company sign-in.
NextCompanies ==
    \/ \E c \in {DEFAULT_BYPASS, "123456"} : VerifyCode(SUPER_ADMIN_EMAIL, c)
    \/ \E s \in Sids, e \in CompanyEmails, pw \in Passwords : CreateCompany(s, e, pw)
    \/ \E s \in Sids, i \in CompanyIds, e \in CompanyEmails \cup {""},
          pw \in Passwords \cup {""} : UpdateCompany(s, i, e, pw)
    \/ \E s \in Sids, i \in CompanyIds : DeleteCompany(s, i)
    \/ \E s \in Sids : ListCompanies(s)
    \/ \E e \in CompanyEmails, pw \in Passwords : CompanyLogin(e, pw)

SpecCompanies == InitData /\ [][NextCompanies]_vars

(* ------------------------------ properties ---------------------------- *)

\* C1. Session validation (requireAuth, GET /api/auth/session) lets a request
\* through if and only if a stored session has the id sent and the clock is
\* strictly before its expires_at; a missing header, an unknown id and a
\* session at or past its expiry (the boundary instant included) get a 401,
\* with no deletion of expired rows involved.
C1_SessionValidation ==
    last.op \in {"session", "create-company"} =>
        ( last.status # 401
          <=> \E s \in sessions : s.id = last.sid /\ now < s.expires_at )

\* A session check answered 401 at the very instant the stored session expires.
C1_Witness ==
    /\ last.op = "session"
    /\ last.status = 401
    /\ \E s \in sessions : s.id = last.sid /\ s.expires_at = now

\* C2. A challenge is single-use: when verify-code has just succeeded for an
\* identity with its stored code, verify-code for the same identity and code
\* again, with nothing in between, fails with 'No pending verification' and
\* creates no session.
C2_SingleUse ==
    ( /\ last.op = "verify-code"
      /\ last.prior = "used" )
    => ( /\ last.status = 401
         /\ last.error = "No pending verification"
         /\ last.data = {} )

\* C3 as stated: a verify-code (outside the bypass path) that follows a
\* verify-code answered 'Code expired' for the same identity is answered
\* 'Code expired' again.
C3_ExpiredTwice ==
    ( /\ last.op = "verify-code"
      /\ ~isBypass(last.email, last.code)
      /\ last.prior = "expired" )
    => (last.status = 401 /\ last.error = "Code expired")

\* C3, amended. A verify-code outside the bypass path that finds the identity's
\* challenge past its expiry is answered 401 'Code expired', removes the
\* challenge and creates no session; a verify-code for the same identity right
\* after it is answered 401 'No pending verification' and creates no session.
C3_ExpiredThenNoPending ==
    [][ (last'.op = "verify-code" /\ ~isBypass(last'.email, last'.code)) =>
          /\ (\E r \in auth_codes : r.email = last'.email /\ now > r.expires_at)
                => ( /\ last'.status = 401
                     /\ last'.error = "Code expired"
                     /\ \A r \in auth_codes' : r.email # last'.email
                     /\ sessions' = sessions )
          /\ last'.prior = "expired"
                => ( /\ last'.status = 401
                     /\ last'.error = "No pending verification"
                     /\ sessions' = sessions )
      ]_vars

\* The second of two verify-code requests made after the challenge expired.
C3_Witness ==
    /\ last.op = "verify-code"
    /\ last.error = "No pending verification"
    /\ last.prior = "expired"

\* C4. For every identity other than the designated privileged one,
\* request-code is answered 401, leaves the stored challenges as they were
\* (none created, none overwritten) and sends no code.
C4_OnlyPrivilegedIdentity ==
    [][ (last'.op = "request-code" /\ last'.email # "ml@feedbacknfc.com") =>
          /\ last'.status = 401
          /\ last'.data = {}
          /\ last'.mail = {}
          /\ auth_codes' = auth_codes
      ]_vars

\* A request-code for a letter-case variant of the privileged identity was
\* refused while a challenge of the privileged identity is stored.
C4_Witness ==
    /\ last.op = "request-code"
    /\ last.email = "ML@feedbacknfc.com"
    /\ last.status = 401
    /\ auth_codes # {}

\* C5. company-login whose e-mail and password match no company is answered
\* 401 'Invalid credentials' with the same body whether or not a company has
\* that e-mail, and creates no session.
C5_InvalidCredentials ==
    [][ ( /\ last'.op = "company-login"
          /\ env.DATABASE_URL
          /\ ~\E c \in companies :
                LOWER(c.email) = LOWER(last'.email) /\ c.password = last'.code )
        => ( /\ last'.status = 401
             /\ last'.error = "Invalid credentials"
             /\ last'.data = {}
             /\ sessions' = sessions )
      ]_vars

\* A login with an existing company's e-mail and a wrong password was refused.
C5_Witness ==
    /\ last.op = "company-login"
    /\ last.status = 401
    /\ \E c \in companies : LOWER(c.email) = LOWER(last.email) /\ c.password # last.code

\* C6. A request made with a company_admin session touches only rows of the
\* company bound to that session: a contact update or delete, a lead delete
\* and a card-exteriors read or update aimed at another company's row are
\* answered 403 and change nothing, and listing contacts or leads returns
\* exactly the bound company's rows whatever companyId the query gives.
C6_TenantIsolation ==
    [][ \A s \in sessions :
          (s.id = last'.sid /\ s.expires_at > now /\ s.role = "company_admin") =>
            /\ \A c \in (contacts' \ contacts) \cup (contacts \ contacts') :
                  c.company_id = s.company_id
            /\ \A l \in (leads' \ leads) \cup (leads \ leads') :
                  l.company_id = s.company_id
            /\ \A c \in (companies' \ companies) \cup (companies \ companies') :
                  c.id = s.company_id
            /\ ( /\ last'.op \in {"update-contact", "delete-contact"}
                 /\ \E c \in contacts :
                       c.id = last'.target /\ c.company_id # s.company_id )
               => (last'.status = 403 /\ contacts' = contacts)
            /\ ( /\ last'.op = "delete-lead"
                 /\ \E l \in leads : l.id = last'.target /\ l.company_id # s.company_id )
               => (last'.status = 403 /\ leads' = leads)
            /\ ( /\ last'.op \in {"put-card-exteriors", "get-card-exteriors"}
                 /\ last'.target # s.company_id )
               => (last'.status = 403 /\ last'.data = {} /\ companies' = companies)
            /\ last'.op = "list-contacts"
               => last'.data = {c \in contacts : c.company_id = s.company_id}
            /\ last'.op = "list-leads"
               => last'.data = {l \in leads : l.company_id = s.company_id}
      ]_vars

\* A company admin's update of another company's contact was answered 403.
C6_Witness ==
    /\ last.op = "update-contact"
    /\ last.status = 403
    /\ \E s \in sessions :
          /\ s.id = last.sid
          /\ s.role = "company_admin"
          /\ \E c \in contacts : c.id = last.target /\ c.company_id # s.company_id

\* C7. A request without a valid, unexpired session never adds, changes or
\* removes a company, a contact, a lead or an uploaded file.
C7_AnonymousChangesNothing ==
    [][ (~\E s \in sessions : s.id = last'.sid /\ s.expires_at > now) =>
          /\ companies' = companies
          /\ contacts' = contacts
          /\ leads' = leads
          /\ files' = files
      ]_vars

\* C8. With ADMIN_BYPASS_CODE unset, whatever NODE_ENV is, verify-code creates
\* a session only when the code sent is the identity's stored challenge code
\* and that challenge is not past its expiry.
C8_BypassNeedsOptIn ==
    [][ ( /\ last'.op = "verify-code"
          /\ env.ADMIN_BYPASS_CODE = ""
          /\ sessions' # sessions )
        => \E r \in auth_codes :
              r.email = last'.email /\ r.code = last'.code /\ now <= r.expires_at
      ]_vars

\* C9. With NODE_ENV = 'production' and no bypass code configured, every
\* super_admin session is created by a verify-code whose code is the
\* identity's stored challenge code, that challenge not being past its expiry:
\* no fixed code is accepted.
C9_ProductionNoFixedCode ==
    [][ ( /\ env.NODE_ENV = "production"
          /\ env.ADMIN_BYPASS_CODE = ""
          /\ \E s \in sessions' \ sessions : s.role = "super_admin" )
        => /\ last'.op = "verify-code"
           /\ \E r \in auth_codes :
                 r.email = last'.email /\ r.code = last'.code /\ now <= r.expires_at
      ]_vars

\* In production without a bypass code, verify-code has just created a
\* super_admin session.
C9_Witness ==
    /\ env.NODE_ENV = "production"
    /\ env.ADMIN_BYPASS_CODE = ""
    /\ last.op = "verify-code"
    /\ last.status = 200
    /\ \E s \in sessions : s.id \in last.data /\ s.role = "super_admin"

\* C10. For the privileged identity a verify-code with the stored code, made
\* no later than 10 minutes after the challenge was issued, creates a session
\* with role super_admin expiring 24 hours later; a stored super_admin session
\* validates exactly at the times strictly before creation + 24 hours; after a
\* logout with a session id no session has that id, an id whose session is gone
\* is never given to a session again, and validating it fails.
C10_LoginLogout ==
    [][ /\ ( /\ last'.op = "verify-code"
             /\ last'.email = "ml@feedbacknfc.com"
             /\ \E r \in auth_codes : /\ r.email = last'.email
                                      /\ r.code = last'.code
                                      /\ now <= r.expires_at )
           => ( /\ last'.status = 200
                /\ \E s \in sessions' \ sessions :
                      /\ s.id \in last'.data
                      /\ s.role = "super_admin"
                      /\ s.created_at = now
                      /\ s.expires_at = now + SESSION_TTL )
        /\ ( last'.op = "session" =>
               \A s \in sessions :
                  (s.id = last'.sid /\ s.role = "super_admin") =>
                     (last'.status = 200 <=> now < s.created_at + SESSION_TTL) )
        /\ ( (last'.op = "logout" /\ last'.sid # NULL /\ env.DATABASE_URL) =>
               ~\E s \in sessions' : s.id = last'.sid )
        /\ \A i \in 1 .. (nextId.session - 1) :
              (~\E s \in sessions : s.id = i) => (~\E s \in sessions' : s.id = i)
        /\ ( (last'.op = "session" /\ ~\E s \in sessions : s.id = last'.sid) =>
               last'.status = 401 )
      ]_vars

\* A session id that was issued and logged out fails validation after a later
\* sign-in has created another session.
C10_Witness ==
    /\ last.op = "session"
    /\ last.status = 401
    /\ last.sid # NULL
    /\ last.sid < nextId.session
    /\ ~\E s \in sessions : s.id = last.sid
    /\ \E s \in sessions : s.id > last.sid /\ s.role = "super_admin" /\ now < s.expires_at

\* C11 as stated: a wallet request for a provider that is not configured is
\* always answered with the provider's 'not configured' error, for every
\* contact id, with no key import and no signing.
C11_AlwaysNotConfigured ==
    [][ ( \/ /\ last'.op = "wallet-google"
             /\ "" \in {env.GOOGLE_WALLET_ISSUER_ID, env.GOOGLE_WALLET_SERVICE_ACCOUNT_KEY}
          \/ /\ last'.op = "wallet-samsung"
             /\ "" \in {env.SAMSUNG_WALLET_PARTNER_ID, env.SAMSUNG_WALLET_CARD_ID,
                        env.SAMSUNG_WALLET_CERTIFICATE_ID,
                        env.SAMSUNG_WALLET_PRIVATE_KEY} )
        =>
          /\ last'.error \in {"Google Wallet not configured",
                              "Samsung Wallet not configured"}
          /\ last'.calls = <<>>
      ]_vars

\* C11, amended. For a provider that is not configured the builder throws
\* '<provider> Wallet not configured' for every contact, and the route answers
\* 503 with that error for every contact id, existing or not, when the database
\* is configured and 500 'Database not configured' when it is not; in every
\* case no key is parsed or imported, nothing is signed and no pass is built.
C11_NotConfigured ==
    [][ ( \/ /\ last'.op = "wallet-google"
             /\ "" \in {env.GOOGLE_WALLET_ISSUER_ID, env.GOOGLE_WALLET_SERVICE_ACCOUNT_KEY}
          \/ /\ last'.op = "wallet-samsung"
             /\ "" \in {env.SAMSUNG_WALLET_PARTNER_ID, env.SAMSUNG_WALLET_CARD_ID,
                        env.SAMSUNG_WALLET_CERTIFICATE_ID,
                        env.SAMSUNG_WALLET_PRIVATE_KEY} )
        =>
          /\ last'.calls = <<>>
          /\ passes' = passes
          /\ last'.data = {}
          /\ env.DATABASE_URL =>
                /\ last'.status = 503
                /\ last'.error = IF last'.op = "wallet-google"
                                 THEN "Google Wallet not configured"
                                 ELSE "Samsung Wallet not configured"
          /\ ~env.DATABASE_URL =>
                (last'.status = 500 /\ last'.error = "Database not configured")
          /\ \A i \in PassContactIds, n \in {"Jane", ""} :
                LET contact == [id |-> i, company_id |-> 1, name_en |-> n] IN
                /\ last'.op = "wallet-google" =>
                      generateGoogleWalletJWT(GOOGLE_WALLET_CONFIG, contact, {}, now)
                        = [ok |-> FALSE, message |-> <<"Google Wallet not configured">>,
                           calls |-> <<>>]
                /\ last'.op = "wallet-samsung" =>
                      generateSamsungWalletToken(SAMSUNG_WALLET_CONFIG, contact, {}, now)
                        = [ok |-> FALSE, message |-> <<"Samsung Wallet not configured">>,
                           calls |-> <<>>]
      ]_vars

\* A Google pass was asked for a contact id that does not exist, with the
\* service account key set and the issuer id missing, and refused with 503.
C11_Witness ==
    /\ last.op = "wallet-google"
    /\ last.status = 503
    /\ env.GOOGLE_WALLET_SERVICE_ACCOUNT_KEY # ""
    /\ env.GOOGLE_WALLET_ISSUER_ID = ""
    /\ contacts # {}
    /\ ~\E c \in contacts : c.id = last.target

\* C12. When a pass build fails for a configured provider, the caller gets a
\* 5xx response that names the provider and whose body does not depend on the
\* key material: a run whose secret key setting has another value, failing at
\* the same step of the build, gets the same body, and the body does not
\* contain the configured key.
C12_OpaqueFailure ==
    [][ ( /\ last'.op = "wallet-google"
          /\ env.DATABASE_URL
          /\ env.GOOGLE_WALLET_ISSUER_ID # ""
          /\ env.GOOGLE_WALLET_SERVICE_ACCOUNT_KEY # ""
          /\ last'.status \notin {200, 404} )
        => /\ last'.status = 500
           /\ last'.error = "Failed to generate Google Wallet pass"
           /\ \A body \in last'.data : \A i \in DOMAIN body.message :
                 body.message[i] # env.GOOGLE_WALLET_SERVICE_ACCOUNT_KEY
           /\ \A k \in GoogleKeys \ {""} : \A contact \in contacts :
                 LET other == generateGoogleWalletJWT(
                                  [GOOGLE_WALLET_CONFIG EXCEPT !.serviceAccountKey = k],
                                  contact, {}, now)
                 IN (contact.id = last'.target /\ ~other.ok /\ other.calls = last'.calls)
                       => last'.data = {[message |-> other.message]}
      ]_vars

\* C13. Every stored session expires later than it was created; a session
\* with role company_admin is bound to a company, one that exists; a session
\* with role super_admin is bound to none.
C13_SessionStore ==
    \A s \in sessions :
        /\ s.expires_at > s.created_at
        /\ s.role \in {"super_admin", "company_admin"}
        /\ s.role = "company_admin" =>
              (s.company_id # NULL /\ \E c \in companies : c.id = s.company_id)
        /\ s.role = "super_admin" => s.company_id = NULL

\* Sessions of both roles are stored after a company has been deleted.
C13_Witness ==
    /\ \E s \in sessions : s.role = "company_admin"
    /\ \E s \in sessions : s.role = "super_admin"
    /\ last.op = "delete-company"
    /\ last.status = 200

\* C14. In a production deployment with its database: the challenge store
\* holds at most one challenge per identity; a request-code for an identity
\* leaves exactly one challenge for it, with the new code and an expiry 10
\* minutes after the request; and verify-code with a code different from the
\* stored, unexpired one (an earlier code, for instance) is rejected with
\* 'Invalid code' and creates no session.
C14_NewestCodeOnly ==
    [][ (env.DATABASE_URL /\ env.NODE_ENV = "production") =>
          /\ \A r1, r2 \in auth_codes' : r1.email = r2.email => r1 = r2
          /\ (last'.op = "request-code" /\ last'.status = 200) =>
                \E c \in last'.log :
                    {r \in auth_codes' : r.email = last'.email}
                      = {[email |-> last'.email, code |-> c,
                          expires_at |-> now + CODE_TTL]}
          /\ ( /\ last'.op = "verify-code"
               /\ \E r \in auth_codes : /\ r.email = last'.email
                                        /\ now <= r.expires_at
                                        /\ r.code # last'.code )
             => ( /\ last'.status = 401
                  /\ last'.error = "Invalid code"
                  /\ sessions' = sessions )
      ]_vars

\* C15. With the database configured and no bypass code configured,
\* verify-code decides in this order: no stored challenge for the identity,
\* 'No pending verification'; a challenge past its expiry, 'Code expired' and
\* the challenge is deleted; an unexpired challenge with another code,
\* 'Invalid code'; otherwise the challenge is deleted and exactly one session
\* is stored, with role super_admin and expiry 24 hours later.  The three
\* failures create no session.
C15_VerifyOrder ==
    [][ ( /\ last'.op = "verify-code"
          /\ env.DATABASE_URL
          /\ env.ADMIN_BYPASS_CODE = "" )
        => LET rows == {r \in auth_codes : r.email = last'.email}
               kept == {r \in auth_codes : r.email # last'.email}
           IN
           /\ rows = {} =>
                 /\ last'.status = 401
                 /\ last'.error = "No pending verification"
                 /\ sessions' = sessions
                 /\ auth_codes' = auth_codes
           /\ \A r \in rows :
                 /\ now > r.expires_at =>
                       /\ last'.status = 401
                       /\ last'.error = "Code expired"
                       /\ sessions' = sessions
                       /\ auth_codes' = kept
                 /\ (now <= r.expires_at /\ r.code # last'.code) =>
                       /\ last'.status = 401
                       /\ last'.error = "Invalid code"
                       /\ sessions' = sessions
                       /\ auth_codes' = auth_codes
                 /\ (now <= r.expires_at /\ r.code = last'.code) =>
                       /\ last'.status = 200
                       /\ auth_codes' = kept
                       /\ sessions \subseteq sessions'
                       /\ \E s \in sessions' \ sessions :
                             /\ sessions' \ sessions = {s}
                             /\ s.role = "super_admin"
                             /\ s.email = last'.email
                             /\ s.expires_at = now + SESSION_TTL
      ]_vars

\* C16. With the database configured, company-login succeeds exactly when
\* some company's stored e-mail equals the submitted one ignoring letter case
\* and its stored password equals the submitted one; it then stores exactly
\* one session, with role company_admin, expiry 24 hours later and the id of
\* a matched company; otherwise it stores none.
C16_CompanyLogin ==
    [][ (last'.op = "company-login" /\ env.DATABASE_URL) =>
          LET matched == {c \in companies : /\ LOWER(c.email) = LOWER(last'.email)
                                            /\ c.password = last'.code}
          IN
          /\ last'.status = 200 <=> matched # {}
          /\ matched = {} => sessions' = sessions
          /\ matched # {} =>
                /\ sessions \subseteq sessions'
                /\ \E s \in sessions' \ sessions :
                      /\ sessions' \ sessions = {s}
                      /\ last'.data = {s.id}
                      /\ s.role = "company_admin"
                      /\ s.created_at = now
                      /\ s.expires_at = now + SESSION_TTL
                      /\ s.company_id \in {c.id : c \in matched}
      ]_vars

\* A login succeeded with an e-mail that differs from the company's stored
\* e-mail in letter case.
C16_Witness ==
    /\ last.op = "company-login"
    /\ last.status = 200
    /\ \E s \in sessions, c \in companies :
          /\ s.id \in last.data
          /\ s.company_id = c.id
          /\ c.email # last.email

\* C17. Any two Google pass builds yield different object ids, whether for
\* the same contact or for different ones, and also when both happen at the
\* same reading of the clock.
C17_FreshObjectIds ==
    \A i, j \in DOMAIN passes : i # j => passes[i] # passes[j]

\* C18. The unique part of a Google object id is the first min(20, length)
\* characters of the contact id, then '_', then the digits of the build
\* timestamp, every character outside [a-zA-Z0-9_-] being replaced by '_';
\* so it holds only letters, digits, '_' and '-', and is at most 20 + 1 + the
\* number of timestamp digits long.
C18_UniqueIdShape ==
    (last.op = "wallet-google" /\ last.status = 200) =>
        LET objectId == passes[Len(passes)]
            unique == SubSeq(objectId, 3, Len(objectId))
            text == IdText(last.target)
            k == IF Len(text) < 20 THEN Len(text) ELSE 20
            stamp == SubSeq(unique, k + 2, Len(unique))
        IN
        /\ \A j \in 1 .. k :
              unique[j] = IF text[j] \in AllowedChars THEN text[j] ELSE "_"
        /\ unique[k + 1] = "_"
        /\ stamp = Digits(now)
        /\ Len(stamp) >= 1
        /\ \A j \in DOMAIN stamp :
              stamp[j] \in {"0","1","2","3","4","5","6","7","8","9"}
        /\ \A j \in DOMAIN unique : unique[j] \in AllowedChars
        /\ Len(unique) = k + 1 + Len(stamp)
        /\ Len(unique) <= 20 + 1 + Len(stamp)

\* A pass was built for a contact whose id is longer than 20 characters and has,
\* among the first 20, characters outside the allowed set.
C18_Witness ==
    /\ last.op = "wallet-google"
    /\ last.status = 200
    /\ Len(IdText(last.target)) > 20
    /\ \E j \in 1 .. 20 : IdText(last.target)[j] \notin AllowedChars
    /\ now >= 100

\* C19. With DEBUG_MODE off, the code issued by request-code is neither in
\* the HTTP response nor in the server log.
C19_CodeNotDisclosed ==
    (last.op = "request-code" /\ last.status = 200 /\ ~env.DEBUG_MODE) =>
        (last.data = {} /\ last.log = {})

\* C20. Logout always reports success, with or without a session id and
\* whether or not the id is stored; it leaves the session store without the
\* session of that id and with every other session as it was, so that a
\* further logout with the same id changes nothing; it touches nothing else.
C20_LogoutIdempotent ==
    [][ last'.op = "logout" =>
          /\ last'.status = 200
          /\ last'.error = ""
          /\ last'.sid = NULL => sessions' = sessions
          /\ last'.sid # NULL => sessions' = {s \in sessions : s.id # last'.sid}
          /\ {s \in sessions' : s.id # last'.sid} = sessions'
          /\ UNCHANGED <<auth_codes, companies, contacts, leads, files, passes, nextId>>
      ]_vars

\* A logout with the id of a session that was issued and is no longer stored
\* reported success, another session being stored.
C20_Witness ==
    /\ last.op = "logout"
    /\ last.status = 200
    /\ last.sid # NULL
    /\ last.sid < nextId.session
    /\ ~\E s \in sessions : s.id = last.sid
    /\ sessions # {}

\* C21. Of the verify-code requests in flight together that read the same
\* stored challenge and carry its code, at most one creates a session, however
\* their store statements interleave.
C21_SingleUseUnderRace ==
    \A p, q \in Procs :
        ( /\ p # q
          /\ inflight[p].op = "verify-code"
          /\ inflight[q].op = "verify-code"
          /\ inflight[p].rows # {}
          /\ inflight[p].rows = inflight[q].rows )
        => ~(inflight[p].created # NULL /\ inflight[q].created # NULL)

\* C22. Listing, creating, updating and deleting companies with a valid
\* company_admin session is answered 403 'Forbidden', returns no company and
\* leaves the companies, contacts and sessions tables as they were.
C22_CompaniesSuperAdminOnly ==
    [][ \A s \in sessions :
          ( /\ s.id = last'.sid
            /\ s.expires_at > now
            /\ s.role = "company_admin"
            /\ last'.op \in {"list-companies", "create-company", "update-company",
                             "delete-company"} )
          => ( /\ last'.status = 403
               /\ last'.error = "Forbidden"
               /\ last'.data = {}
               /\ companies' = companies
               /\ contacts' = contacts
               /\ sessions' = sessions )
      ]_vars

\* A company admin's request to delete its own company, which has a contact,
\* was answered 403.
C22_Witness ==
    /\ last.op = "delete-company"
    /\ last.status = 403
    /\ \E s \in sessions :
          /\ s.id = last.sid
          /\ s.role = "company_admin"
          /\ s.company_id = last.target
          /\ \E c \in contacts : c.company_id = s.company_id

\* C23. For both providers, with the database and the provider configured and
\* the key setting being the path of a file that holds a valid key, a pass
\* request for an existing contact is answered 200 with the very save URL the
\* provider gives when the key setting holds that file's content inline.
C23_KeyByPathOrInline ==
    \A contact \in contacts :
        ( /\ contact.id = last.target
          /\ env.DATABASE_URL )
        =>
        /\ ( /\ last.op = "wallet-google"
             /\ env.GOOGLE_WALLET_ISSUER_ID # ""
             /\ env.GOOGLE_WALLET_SERVICE_ACCOUNT_KEY = "/run/secrets/sa.json" )
           => LET key == readFileSync(env.GOOGLE_WALLET_SERVICE_ACCOUNT_KEY).content
                  inline == generateGoogleWalletJWT(
                                [GOOGLE_WALLET_CONFIG EXCEPT !.serviceAccountKey = key],
                                contact, {}, now)
              IN /\ inline.ok
                 /\ last.status = 200
                 /\ last.data = {[saveUrl |-> <<"https://pay.google.com/gp/v/save/",
                                                inline.jwt>>,
                                  provider |-> "google"]}
        /\ ( /\ last.op = "wallet-samsung"
             /\ env.SAMSUNG_WALLET_PARTNER_ID # ""
             /\ env.SAMSUNG_WALLET_PRIVATE_KEY = "/run/secrets/samsung.pem" )
           => LET key == readFileSync(env.SAMSUNG_WALLET_PRIVATE_KEY).content
                  inline == generateSamsungWalletToken(
                                [SAMSUNG_WALLET_CONFIG EXCEPT !.privateKey = key],
                                contact, {}, now)
              IN /\ inline.ok
                 /\ last.status = 200
                 /\ last.data = {[saveUrl |-> <<"https://a.swallet.link/atw/v3/",
                                                SAMSUNG_WALLET_CONFIG.cardId,
                                                "#Clip?cdata=", inline.jws>>,
                                  provider |-> "samsung"]}

\* C24. In a production deployment with its database, a verify-code whose
\* code differs from the code of the identity's stored, unexpired challenge
\* leaves the challenge store and the session store as they were, so the
\* challenge keeps its code and its expiry.
C24_WrongCodeKeepsChallenge ==
    [][ ( /\ last'.op = "verify-code"
          /\ env.DATABASE_URL
          /\ env.NODE_ENV = "production"
          /\ \E r \in auth_codes : /\ r.email = last'.email
                                   /\ now <= r.expires_at
                                   /\ r.code # last'.code )
        => ( /\ auth_codes' = auth_codes
             /\ sessions' = sessions )
      ]_vars

\* C25. Every stored challenge belongs to the designated privileged
\* identity, and every stored session with role super_admin has that identity
\* as its e-mail.
C25_PrivilegedOnly ==
    /\ \A r \in auth_codes : r.email = "ml@feedbacknfc.com"
    /\ \A s \in sessions : s.role = "super_admin" => s.email = "ml@feedbacknfc.com"

\* A verify-code with the bypass code for a letter-case variant of the
\* privileged identity was refused, a challenge, a super_admin session and a
\* company_admin session being stored.
C25_Witness ==
    /\ last.op = "verify-code"
    /\ last.email = "ML@feedbacknfc.com"
    /\ last.code = bypassCode
    /\ last.status = 401
    /\ auth_codes # {}
    /\ \E s \in sessions : s.role = "super_admin"
    /\ \E s \in sessions : s.role = "company_admin"

\* C26. A verify-code request that has answered with an error (401 or 500, a
\* failed store statement included) has added no session to the session
\* store, and one that has added a session for a challenge it read has left
\* that challenge deleted when it answers.
C26_AllOrNothing ==
    \A p \in Procs :
        (inflight[p].op = "verify-code" /\ inflight[p].pc = "done") =>
            /\ inflight[p].status \in {401, 500} => inflight[p].created = NULL
            /\ (inflight[p].created # NULL /\ inflight[p].rows # {}) =>
                  inflight[p].rows \cap auth_codes = {}

\* C27. Whatever the interleaving with other requests, the contact row that a
\* company admin's update or delete writes belongs to that admin's company at
\* the moment of the write.
C27_OwnRowAtWrite ==
    [][ \A p \in Procs : \A session \in inflight[p].session :
          ( /\ session.role = "company_admin"
            /\ inflight[p].pc = "checked"
            /\ inflight'[p].pc = "done" )
          => \A c \in (contacts \ contacts') \cup (contacts' \ contacts) :
                c.company_id = session.company_id
      ]_vars

\* C28. No two companies have e-mails that are equal ignoring letter case, so
\* for every e-mail and password company-login matches at most one company.
C28_EmailsDifferIgnoringCase ==
    /\ \A c1, c2 \in companies : LOWER(c1.email) = LOWER(c2.email) => c1 = c2
    /\ \A e \in CompanyEmails, pw \in Passwords :
          Cardinality({c \in companies : /\ LOWER(c.email) = LOWER(e)
                                         /\ c.password = pw}) <= 1

\* C29 as stated: outside the bypass path, verify-code with the stored code is
\* accepted only strictly before the challenge's expires_at and is rejected as
\* expired at every time equal to or later than it, the rule of sessions.
C29_SameBoundaryAsSessions ==
    [][ ( /\ last'.op = "verify-code"
          /\ env.DATABASE_URL
          /\ ~isBypass(last'.email, last'.code) )
        => \A r \in auth_codes :
              (r.email = last'.email /\ r.code = last'.code) =>
                 /\ last'.status = 200 <=> now < r.expires_at
                 /\ now >= r.expires_at =>
                       (last'.status = 401 /\ last'.error = "Code expired")
      ]_vars

\* C29, amended. A challenge expires 10 minutes after request-code stored it;
\* outside the bypass path, verify-code with the stored code is accepted at
\* every time up to and including expires_at, and is rejected as expired,
\* with no session created, only at times strictly later: the last instant of
\* the window is still valid, unlike a session's.
C29_ChallengeWindow ==
    [][ /\ (last'.op = "request-code" /\ last'.status = 200 /\ env.DATABASE_URL) =>
              \A r \in auth_codes' :
                 r.email = last'.email => r.expires_at = now + CODE_TTL
        /\ ( /\ last'.op = "verify-code"
             /\ env.DATABASE_URL
             /\ ~isBypass(last'.email, last'.code) )
           => \A r \in auth_codes :
                 (r.email = last'.email /\ r.code = last'.code) =>
                    /\ last'.status = 200 <=> now <= r.expires_at
                    /\ now <= r.expires_at =>
                          \E s \in sessions' \ sessions : s.id \in last'.data
                    /\ now > r.expires_at =>
                          /\ last'.status = 401
                          /\ last'.error = "Code expired"
                          /\ sessions' = sessions
      ]_vars

\* A verify-code outside the bypass path was accepted at the very instant its
\* challenge expires.
C29_Witness ==
    /\ last.op = "verify-code"
    /\ last.status = 200
    /\ ~isBypass(last.email, last.code)
    /\ \E r \in last.challenge : r.code = last.code /\ r.expires_at = now

\* C30. Every stored company_admin session and every stored contact
\* references an existing company.  A successful company deletion removes the
\* company together with exactly the sessions and the contacts bound to it;
\* afterwards a request carrying the id of a removed session is answered 401,
\* and reading, updating or deleting a contact id that is no longer stored
\* fails and changes nothing.
C30_CompanyDeleteCascades ==
    [][ /\ \A s \in sessions' :
              s.role = "company_admin" => \E c \in companies' : c.id = s.company_id
        /\ \A c \in contacts' : \E o \in companies' : o.id = c.company_id
        /\ (last'.op = "delete-company" /\ last'.status = 200) =>
              /\ companies' = {c \in companies : c.id # last'.target}
              /\ sessions' = {s \in sessions : s.company_id # last'.target}
              /\ contacts' = {c \in contacts : c.company_id # last'.target}
        /\ (last'.sid # NULL /\ ~\E s \in sessions : s.id = last'.sid) =>
              (last'.status = 401 /\ last'.data = {})
        /\ ( /\ last'.op \in {"get-contact", "update-contact", "delete-contact"}
             /\ ~\E c \in contacts : c.id = last'.target )
           => ( /\ last'.status \in {401, 403, 404}
                /\ last'.data = {}
                /\ contacts' = contacts )
      ]_vars

\* A request carrying the session id of the admin of a deleted company was
\* answered 401 (sessions are removed here by the cascade alone).
C30_Witness ==
    /\ last.op = "list-contacts"
    /\ last.status = 401
    /\ last.sid # NULL
    /\ last.sid < nextId.session
    /\ ~\E s \in sessions : s.id = last.sid
    /\ companies = {}
    /\ nextId.company > 1

====
